---- MODULE Spec2Model ----
(***************************************************************************)
(* Model of the genetic-algorithm engine of the Buffer Allocation          *)
(* Optimizer (services/geneticAlgorithm.ts, kept as src/unnamed/part_001)  *)
(* together with its consumer, handleRunOptimization in App                *)
(* (src/app/layout.tsx).                                                   *)
(*                                                                         *)
(* runGA is an async generator.  Its body is cut at the places where the   *)
(* control flow branches or gives up control:                              *)
(*   "created"   the generator object exists, the body has not started     *)
(*   "loop"      running, at the test of the generation loop   (line 167)  *)
(*   "reproduce" running, at the test of the while loop        (line 192)  *)
(*   "yielded"   suspended at the yield                        (line 215)  *)
(*   "timer"     suspended at the await of setTimeout(..., 0)  (line 222)  *)
(*   "done"      returned                                                  *)
(*                                                                         *)
(* Numbers.  Chromosomes hold integers.  Fitness values are IEEE doubles   *)
(* in the program; here they are fixed-point integers in units of 1/Scale, *)
(* computed by the same formula with every division rounded down.  Array   *)
(* indices are 1-based here and 0-based in the program.  Math.random() is  *)
(* a nondeterministic draw: an index draw floor(random * n) ranges over    *)
(* all n indices, a probability gate random < rate draws random from       *)
(* RandomDraws (tenths).                                                   *)
(***************************************************************************)
EXTENDS Integers, Sequences, FiniteSets, TLC

\* ------------------------------------------------------------------ bounds
MaxBuffers == 2
MaxPop == 2
MaxGen == 2
MaxTournament == 2
\* the most buffer slots of a chromosome handed to a single operator call
CallSlots == 3

\* ------------------------------------------------- representation of numbers
\* fixed-point unit of throughput and fitness values: 1/Scale
Scale == 1000
\* fixed-point unit of the exponential: 1/ExpScale
ExpScale == 1000000
\* number of terms of the series that evaluates Math.exp
ExpTerms == 8
\* stands for -Infinity: below every fitness value the program can compute
NegInf == -1000000000
\* rates and Math.random() values in tenths: 0 is 0.0, 5 is 0.5, 10 is 1.0
\* station counts of a run: 1 is the degenerate case, 2 gives one buffer slot, 3 two
StationCounts == {1, 2, 3}
\* tournament sizes of a run: the draws of a tournament may all coincide, so a
\* tournament of any size can return any member of the population and a run
\* of a larger size goes through no other populations (single tournaments of
\* every size up to MaxTournament are taken by CallTournament)
TournamentSizes == {1, 2}
RateSet == {0, 5, 10}
RandomDraws == {0, 5}
W1Set == {1}
W2Set == {2}

\* ----------------------------------------------------------------- helpers
RECURSIVE SumSeq(_)
\* chromosome.reduce((sum, b) => sum + b, 0)
SumSeq(s) == IF s = <<>> THEN 0 ELSE Head(s) + SumSeq(Tail(s))

RECURSIVE SqrtSearch(_, _, _)
\* the largest r in lo..hi with r * r <= n (hi * hi stays below 2^31)
SqrtSearch(n, lo, hi) ==
  IF lo >= hi THEN lo
  ELSE LET mid == (lo + hi + 1) \div 2
       IN IF mid * mid <= n THEN SqrtSearch(n, mid, hi)
                            ELSE SqrtSearch(n, lo, mid - 1)

\* Math.sqrt on fixed-point input, rounded down
ISqrt(n) == SqrtSearch(n, 0, 46340)

RECURSIVE ExpSeries(_, _, _, _)
\* Math.exp(-0.05 * s) in units of 1/ExpScale, by its power series:
\* term_k = term_(k-1) * s / (20 * k), alternating in sign
ExpSeries(s, k, term, acc) ==
  IF k > ExpTerms THEN acc
  ELSE LET t == (term * s) \div (20 * k)
       IN ExpSeries(s, k + 1, t, IF k % 2 = 1 THEN acc - t ELSE acc + t)

ExpNeg(s) == ExpSeries(s, 1, ExpScale, ExpScale)

\* ------------------------------------------------------------ fitness model
\* sum over the slots of (L * b - S)^2, which is L^2 times the sum of the
\* squared deviations from the mean S / L
RECURSIVE SqDev(_, _, _)
SqDev(buffers, len, total) ==
  IF buffers = <<>> THEN 0
  ELSE (len * Head(buffers) - total) * (len * Head(buffers) - total)
       + SqDev(Tail(buffers), len, total)

\* predictThroughput by its formula, in units of 1/Scale.
\*   stdDev / (mean + 1) = sqrt(V / L) / (S + L)  with V = SqDev
\*   baseThroughput      = 1000 * (1 - exp(-0.05 * S))
throughputOf(buffers) ==
  IF Len(buffers) = 0 THEN 0
  ELSE LET totalBuffers == SumSeq(buffers)
           len == Len(buffers)
       IN IF totalBuffers = 0 THEN 50 * Scale
          ELSE LET v == SqDev(buffers, len, totalBuffers)
                   ratio == ISqrt((v * Scale * Scale) \div len) \div (totalBuffers + len)
                   baseThroughput == ((ExpScale - ExpNeg(totalBuffers)) * 1000) \div (ExpScale \div Scale)
                   imbalancePenalty == Scale + ratio
               IN (baseThroughput * Scale) \div imbalancePenalty

\* the chromosomes whose throughput is tabulated once: every slot within 0..MaxBuffers
Tabulated == UNION { [1..(k - 1) -> 0..MaxBuffers] : k \in StationCounts }

\* throughputOf as a set of pairs <<chromosome, throughput>>
ThroughputTable == { <<c, throughputOf(c)>> : c \in Tabulated }

\* predictThroughput: pure, so a tabulated value is the formula's value
predictThroughput(buffers) ==
  IF buffers \in Tabulated
  THEN (CHOOSE e \in ThroughputTable : e[1] = buffers)[2]
  ELSE throughputOf(buffers)

\* calculateFitness, in units of 1/Scale
calculateFitness(chromosome, w1, w2) ==
  w1 * predictThroughput(chromosome) - w2 * SumSeq(chromosome) * Scale

\* ------------------------------------------------------ population initializer
RECURSIVE createLoop(_, _, _)
\* the while loop of createIndividual: every result the draws of slot can give
createLoop(individual, remainingBuffers, numBufferSlots) ==
  IF remainingBuffers > 0
  THEN UNION { createLoop([individual EXCEPT ![slot] = @ + 1],
                          remainingBuffers - 1, numBufferSlots)
               : slot \in 1..numBufferSlots }
  ELSE {individual}

\* createIndividual: the set of chromosomes one call can return
createIndividual(numBufferSlots, totalBuffers) ==
  IF numBufferSlots <= 0 THEN {<<>>}
  ELSE createLoop([i \in 1..numBufferSlots |-> 0], totalBuffers, numBufferSlots)

\* initializePopulation: popSize independent draws of createIndividual
initializePopulation(popSize, numBufferSlots, totalBuffers) ==
  [1..popSize -> createIndividual(numBufferSlots, totalBuffers)]

RECURSIVE tournamentLoopLatest(_, _, _, _, _)
\* mutant: a later draw of equal fitness replaces the incumbent (>= for >)
tournamentLoopLatest(fits, draws, i, best, bestFitness) ==
  IF i > Len(draws) THEN best
  ELSE IF fits[draws[i]] >= bestFitness
       THEN tournamentLoopLatest(fits, draws, i + 1, draws[i], fits[draws[i]])
       ELSE tournamentLoopLatest(fits, draws, i + 1, best, bestFitness)

\* ------------------------------------------------------------------ selection
RECURSIVE tournamentLoop(_, _, _, _, _)
\* the for loop of tournamentSelection over the drawn indices; best = 0 is null
tournamentLoop(fits, draws, i, best, bestFitness) ==
  IF i > Len(draws) THEN best
  ELSE IF fits[draws[i]] > bestFitness
       THEN tournamentLoop(fits, draws, i + 1, draws[i], fits[draws[i]])
       ELSE tournamentLoop(fits, draws, i + 1, best, bestFitness)

\* index of the individual tournamentSelection returns for the given draws
tournamentIndex(fits, draws) == tournamentLoop(fits, draws, 1, 0, NegInf)

\* the draws of one tournament: tournamentSize indices, with replacement
TournamentDraws(popLen, tournamentSize) == [1..tournamentSize -> 1..popLen]

\* tournamentSelection: the set of indices whose individual one call can return
tournamentWinners(popLen, fits, tournamentSize) ==
  { tournamentIndex(fits, draws) : draws \in TournamentDraws(popLen, tournamentSize) }

\* tournamentSelection: the set of individuals one call can return
tournamentSelection(pop, fits, tournamentSize) ==
  { pop[tournamentIndex(fits, draws)] :
      draws \in TournamentDraws(Len(pop), tournamentSize) }

RECURSIVE repairLoopGreedy(_, _, _, _, _)
\* mutant: the slot found is emptied at once instead of reduced by one
repairLoopGreedy(child, currentSum, totalBuffers, size, iters) ==
  IF currentSum = totalBuffers
  THEN {[child |-> child, iters |-> iters, safeguard |-> FALSE]}
  ELSE IF currentSum > totalBuffers
       THEN IF \E i \in 1..size : child[i] > 0
            THEN LET indexToReduce == CHOOSE i \in 1..size :
                       /\ child[i] > 0
                       /\ \A j \in 1..(i - 1) : ~(child[j] > 0)
                 IN repairLoopGreedy([child EXCEPT ![indexToReduce] = 0],
                                     currentSum - child[indexToReduce],
                                     totalBuffers, size, iters + 1)
            ELSE { [child |-> c, iters |-> iters + 1, safeguard |-> TRUE] :
                     c \in createIndividual(size, totalBuffers) }
       ELSE UNION { repairLoopGreedy([child EXCEPT ![indexToIncrease] = @ + 1],
                                     currentSum + 1, totalBuffers, size, iters + 1)
                    : indexToIncrease \in 1..size }

RECURSIVE repairLoopStrict(_, _, _, _, _)
\* mutant: only a slot holding more than one unit is reduced (val > 1)
repairLoopStrict(child, currentSum, totalBuffers, size, iters) ==
  IF currentSum = totalBuffers
  THEN {[child |-> child, iters |-> iters, safeguard |-> FALSE]}
  ELSE IF currentSum > totalBuffers
       THEN IF \E i \in 1..size : child[i] > 1
            THEN LET indexToReduce == CHOOSE i \in 1..size :
                       /\ child[i] > 1
                       /\ \A j \in 1..(i - 1) : ~(child[j] > 1)
                 IN repairLoopStrict([child EXCEPT ![indexToReduce] = @ - 1],
                                     currentSum - 1, totalBuffers, size, iters + 1)
            ELSE { [child |-> c, iters |-> iters + 1, safeguard |-> TRUE] :
                     c \in createIndividual(size, totalBuffers) }
       ELSE UNION { repairLoopStrict([child EXCEPT ![indexToIncrease] = @ + 1],
                                     currentSum + 1, totalBuffers, size, iters + 1)
                    : indexToIncrease \in 1..size }

\* --------------------------------------------------------- crossover + repair
RECURSIVE repairLoop(_, _, _, _, _)
\* the while loop of repair: the set of outcomes [child, iters, safeguard]
\* over the draws of indexToIncrease (and of the safeguard's fresh individual)
repairLoop(child, currentSum, totalBuffers, size, iters) ==
  IF currentSum = totalBuffers
  THEN {[child |-> child, iters |-> iters, safeguard |-> FALSE]}
  ELSE IF currentSum > totalBuffers
       THEN IF \E i \in 1..size : child[i] > 0
            THEN LET indexToReduce == CHOOSE i \in 1..size :
                       /\ child[i] > 0
                       /\ \A j \in 1..(i - 1) : ~(child[j] > 0)
                 IN repairLoop([child EXCEPT ![indexToReduce] = @ - 1],
                               currentSum - 1, totalBuffers, size, iters + 1)
            ELSE { [child |-> c, iters |-> iters + 1, safeguard |-> TRUE] :
                     c \in createIndividual(size, totalBuffers) }
       ELSE UNION { repairLoop([child EXCEPT ![indexToIncrease] = @ + 1],
                               currentSum + 1, totalBuffers, size, iters + 1)
                    : indexToIncrease \in 1..size }

\* mutant: the offspring is returned as recombined, without repair
repairOutcomesSkipped(child, totalBuffers) ==
  {[child |-> child, iters |-> 0, safeguard |-> FALSE]}

\* repair: the outcomes of repairing one child
repairOutcomes(child, totalBuffers) ==
  repairLoop(child, SumSeq(child), totalBuffers, Len(child), 0)

\* repair: the set of chromosomes it can return
repair(child, totalBuffers) ==
  { o.child : o \in repairOutcomes(child, totalBuffers) }

\* the two offspring of a cut at crossoverPoint, before repair
recombine(parent1, parent2, crossoverPoint) ==
  LET size == Len(parent1)
  IN << SubSeq(parent1, 1, crossoverPoint) \o SubSeq(parent2, crossoverPoint + 1, size),
        SubSeq(parent2, 1, crossoverPoint) \o SubSeq(parent1, crossoverPoint + 1, size) >>

\* crossover: the set of pairs <<offspring1, offspring2>> one call can return
crossover(parent1, parent2, totalBuffers) ==
  LET size == Len(parent1)
  IN IF size <= 1 THEN { <<parent1, parent2>> }
     ELSE UNION { LET kids == recombine(parent1, parent2, crossoverPoint)
                  IN repair(kids[1], totalBuffers) \X repair(kids[2], totalBuffers)
                  : crossoverPoint \in 1..(size - 1) }

\* mutant: the unit is moved without testing that the slot idx1 holds one
mutateAtUnchecked(chromosome, idx1, idx2) ==
  LET dec == [chromosome EXCEPT ![idx1] = @ - 1]
  IN [dec EXCEPT ![idx2] = @ + 1]

\* ------------------------------------------------------------------- mutation
\* mutate with the drawn indices idx1 and idx2
mutateAt(chromosome, idx1, idx2) ==
  IF chromosome[idx1] > 0
  THEN LET dec == [chromosome EXCEPT ![idx1] = @ - 1]
       IN [dec EXCEPT ![idx2] = @ + 1]
  ELSE chromosome

\* mutate: the set of chromosomes one call can return
mutate(chromosome) ==
  IF Len(chromosome) <= 1 THEN {chromosome}
  ELSE { mutateAt(chromosome, idx1, idx2) :
           idx1 \in 1..Len(chromosome), idx2 \in 1..Len(chromosome) }

\* an array that is not a member of population: a reference is the index of
\* the first member of population that is the same array, or NotMember
NotMember == 0

\* mutant: mutate works on the array it was given
spreadCopyAliased(ref) == ref

\* const mutated = [...chromosome]: the array mutate writes into is a new one
spreadCopy(ref) == NotMember

\* mutant: the early return of mutate is missing, a copy is always returned
mutateTargetCopied(chromosome, ref) == spreadCopy(ref)

\* the array mutate returns: the one it was given when it returns early, else
\* the one it wrote into
mutateTarget(chromosome, ref) ==
  IF Len(chromosome) <= 1 THEN ref ELSE spreadCopy(ref)

\* the contents of the arrays held in seq (references seqRefs) once value has
\* been written into the array target
stored(seq, seqRefs, target, value) ==
  [i \in 1..Len(seq) |->
     IF target # NotMember /\ seqRefs[i] = target THEN value ELSE seq[i]]

\* Math.random() < rate: the outcomes the gate can have
Gate(rate) == { r < rate : r \in RandomDraws }

\* the results of "if (Math.random() < mutationRate) x = mutate(x)"
maybeMutate(chromosome, mutationRate) ==
  UNION { IF fire THEN mutate(chromosome) ELSE {chromosome} : fire \in Gate(mutationRate) }

\* ---------------------------------------------------------------------- state
VARIABLES
  params,          \* OptimizationParams of the run
  settings,        \* GASettings of the run
  pc,              \* where the generator body stands
  gen,             \* loop counter of the generation loop
  population,      \* current population
  bestEver,        \* best individual seen so far
  bestFitnessEver, \* its fitness, NegInf before the first evaluation
  fitnesses,       \* fitness of each member of population (this generation)
  totalFitness,    \* sum of fitnesses (this generation)
  newPopulation,   \* population under construction (this generation)
  timers,          \* setTimeout callbacks scheduled and not yet run
  emitted,         \* ProgressData records the consumer has received, in order
  result,          \* OptimizationResult the consumer has received, or NoResult
  requests,        \* calls of gaRunner.next() made by the consumer
  suspensions,     \* times the generator body has given up control
  evaluations,     \* times the Evaluate block has run
  refs,            \* which array each member of population and of
                   \* newPopulation, and bestEver, is (see NotMember)
  evaluated,       \* per generation, what its Evaluate block went through:
                   \* how many individuals, their total and greatest fitness
  call,            \* the operator call under study (CallSpec), or NoCall
  roles            \* what each member of newPopulation was pushed as

vars == << params, settings, pc, gen, population, bestEver, bestFitnessEver,
           fitnesses, totalFitness, newPopulation, timers, emitted, result,
           requests, suspensions, evaluations, refs, evaluated, call,
           roles >>

\* the run's own state, as opposed to what records its history
engineState == << pc, gen, population, bestEver, bestFitnessEver, fitnesses,
                  totalFitness, newPopulation, timers >>

NoResult == [none |-> TRUE]
NoCall == [name |-> "none"]
\* bestEver before the body has assigned it: no chromosome has a negative slot
NoChromosome == << -1 >>

numBufferSlots == params.numStations - 1

\* the parameter and setting values a run is started with
ParamsSet ==
  [numStations : StationCounts, totalBuffers : 0..MaxBuffers, w1 : W1Set, w2 : W2Set]

SettingsSet ==
  [populationSize : 1..MaxPop, generations : 0..MaxGen, mutationRate : RateSet,
   crossoverRate : RateSet, tournamentSize : TournamentSizes]

\* const gaRunner = runGA(params, gaSettings): the body has not started
Init ==
  /\ params \in ParamsSet
  /\ settings \in SettingsSet
  /\ pc = "created"
  /\ gen = 0
  /\ population = <<>>
  /\ bestEver = NoChromosome
  /\ bestFitnessEver = NegInf
  /\ fitnesses = <<>>
  /\ totalFitness = 0
  /\ newPopulation = <<>>
  /\ timers = 0
  /\ emitted = <<>>
  /\ result = NoResult
  /\ requests = 0
  /\ suspensions = 0
  /\ evaluations = 0
  /\ refs = [pop |-> <<>>, new |-> <<>>, best |-> NotMember]
  /\ evaluated = <<>>
  /\ call = NoCall
  /\ roles = <<>>

\* ------------------------------------------------------------------- actions
\* the result of the degenerate entry
degenerateResult ==
  [bestAllocation |-> <<>>, predictedThroughput |-> 0, totalBuffersUsed |-> 0,
   bestFitness |-> NegInf]

\* mutant: a single station is not treated as degenerate (< for <=)
isDegenerateStrict(slots) == slots < 0

\* the test of the degenerate entry
isDegenerate(slots) == slots <= 0

\* the first gaRunner.next(): the body runs from its start to the loop test,
\* or returns at once in the degenerate case
Start ==
  /\ pc = "created"
  /\ requests' = requests + 1
  /\ IF isDegenerate(numBufferSlots)
     THEN /\ result' = degenerateResult
          /\ pc' = "done"
          /\ UNCHANGED << population, bestEver, bestFitnessEver, refs >>
     ELSE /\ \E pop \in initializePopulation(settings.populationSize,
                                             numBufferSlots, params.totalBuffers) :
               /\ population' = pop
               /\ bestEver' = pop[1]
               /\ refs' = [pop |-> [i \in 1..Len(pop) |-> i], new |-> <<>>,
                           best |-> 1]
          /\ bestFitnessEver' = NegInf
          /\ pc' = "loop"
          /\ UNCHANGED result
  /\ UNCHANGED << params, settings, gen, fitnesses, totalFitness, newPopulation,
                  timers, emitted, suspensions, evaluations, evaluated, call,
                  roles >>

\* the greatest element of a set of fitness values, NegInf for the empty set
greatest(S) == IF S = {} THEN NegInf ELSE CHOOSE x \in S : \A y \in S : y <= x

\* mutant: the scan of Evaluate looks at the first individual only
bestIndexFirst(fits, i, currentBest, currentBestFitness) ==
  IF Len(fits) = 0 THEN 0 ELSE 1

RECURSIVE bestIndex(_, _, _, _)
\* the scan of Evaluate for the generation's best: index of the first maximum
bestIndex(fits, i, currentBest, currentBestFitness) ==
  IF i > Len(fits) THEN currentBest
  ELSE IF fits[i] > currentBestFitness
       THEN bestIndex(fits, i + 1, i, fits[i])
       ELSE bestIndex(fits, i + 1, currentBest, currentBestFitness)

RECURSIVE sumFitness(_, _)
\* totalFitness after the scan of Evaluate
sumFitness(fits, i) ==
  IF i > Len(fits) THEN 0 ELSE fits[i] + sumFitness(fits, i + 1)

\* mutant: the best-ever individual is replaced by a less fit one (< for >)
improvesReversed(currentBestFitness, bestFitnessSoFar) ==
  currentBestFitness < bestFitnessSoFar

\* does Evaluate replace the best-ever individual
improves(currentBestFitness, bestFitnessSoFar) == currentBestFitness > bestFitnessSoFar

\* mutant: the elitist is not carried over
eliteMissing(best) == << >>

\* the head of newPopulation: the elitist
elite(best) == << best >>

\* mutant: the generation loop runs once more (<= for <)
loopContinuesInclusive(g, generations) == g <= generations

\* the test of the generation loop
loopContinues(g, generations) == g < generations

\* Evaluate: the generation loop is entered (gen < generations); fitnesses, the
\* generation's best, the best-ever update and the elitist seed of newPopulation
Evaluate ==
  /\ pc = "loop"
  /\ loopContinues(gen, settings.generations)
  /\ LET fits == [i \in 1..Len(population) |->
                    calculateFitness(population[i], params.w1, params.w2)]
         idx == bestIndex(fits, 1, 0, NegInf)
         currentBestFitness == IF idx = 0 THEN NegInf ELSE fits[idx]
         better == improves(currentBestFitness, bestFitnessEver)
         best == IF better THEN population[idx] ELSE bestEver
         bestRef == IF better THEN refs.pop[idx] ELSE refs.best
     IN /\ fitnesses' = fits
        /\ totalFitness' = sumFitness(fits, 1)
        /\ bestFitnessEver' = IF better THEN currentBestFitness ELSE bestFitnessEver
        /\ bestEver' = best
        /\ newPopulation' = elite(best)
        /\ refs' = [refs EXCEPT !.best = bestRef,
                                !.new = [i \in 1..Len(elite(best)) |-> bestRef]]
        /\ roles' = [i \in 1..Len(elite(best)) |-> "bestEver"]
        /\ evaluated' =
             Append(evaluated,
                    [count |-> Len(population),
                     total |-> SumSeq(fits),
                     max |-> greatest({ fits[i] : i \in 1..Len(population) })])
  /\ pc' = "reproduce"
  /\ evaluations' = evaluations + 1
  /\ UNCHANGED << params, settings, gen, population, timers, emitted, result,
                  requests, suspensions, call >>

\* mutant: the test counts the first offspring as if it were already pushed
stillRoomAfterFirst(newPop, populationSize) == Len(newPop) + 1 < populationSize

\* the "still room" test on the second offspring
stillRoom(newPop, populationSize) == Len(newPop) < populationSize

\* one iteration of the while loop of Reproduce. parent1 is a member of
\* population (index i1); the offspring of crossover are new arrays
\* (slice().concat(), [...parent]) that repair and mutate write into; without
\* crossover offspring1 is parent1 itself, which mutate is then called on
ReproduceStep ==
  /\ pc = "reproduce"
  /\ Len(newPopulation) < settings.populationSize
  /\ \E i1 \in tournamentWinners(Len(population), fitnesses, settings.tournamentSize) :
     \E cross \in Gate(settings.crossoverRate) :
       LET parent1 == population[i1]
       IN IF cross
          THEN \E parent2 \in tournamentSelection(population, fitnesses,
                                                 settings.tournamentSize) :
               \E kids \in crossover(parent1, parent2, params.totalBuffers) :
               \E offspring2 \in maybeMutate(kids[2], settings.mutationRate) :
               \E offspring1 \in maybeMutate(kids[1], settings.mutationRate) :
                 /\ newPopulation' =
                      (IF stillRoom(newPopulation, settings.populationSize)
                       THEN Append(newPopulation, offspring2)
                       ELSE newPopulation) \o << offspring1 >>
                 /\ refs' = [refs EXCEPT !.new =
                      (IF stillRoom(newPopulation, settings.populationSize)
                       THEN Append(refs.new, NotMember)
                       ELSE refs.new) \o << NotMember >>]
                 /\ roles' =
                      (IF stillRoom(newPopulation, settings.populationSize)
                       THEN Append(roles, "offspring2")
                       ELSE roles) \o << "offspring1" >>
                 /\ UNCHANGED << population, bestEver >>
          ELSE \E fire \in Gate(settings.mutationRate) :
               /\ roles' = Append(roles, "parent1")
               /\ IF fire
                 THEN \E offspring1 \in mutate(parent1) :
                        LET target == mutateTarget(parent1, refs.pop[i1])
                        IN /\ population' =
                                stored(population, refs.pop, target, offspring1)
                           /\ bestEver' =
                                stored(<< bestEver >>, << refs.best >>, target,
                                       offspring1)[1]
                           /\ newPopulation' =
                                Append(stored(newPopulation, refs.new, target,
                                              offspring1), offspring1)
                           /\ refs' = [refs EXCEPT !.new = Append(refs.new, target)]
                 ELSE /\ newPopulation' = Append(newPopulation, parent1)
                      /\ refs' = [refs EXCEPT !.new = Append(refs.new, refs.pop[i1])]
                      /\ UNCHANGED << population, bestEver >>
  /\ UNCHANGED << params, settings, pc, gen, bestFitnessEver, fitnesses,
                  totalFitness, timers, emitted, result, requests, suspensions,
                  evaluations, evaluated, call >>

\* mutant: the new population is not truncated
truncateNone(newPop, populationSize) == newPop

\* newPopulation.slice(0, populationSize)
truncate(newPop, populationSize) ==
  SubSeq(newPop, 1, IF Len(newPop) < populationSize THEN Len(newPop) ELSE populationSize)

\* mutant: the record's bestFitness is filled with the average
progressDataSwapped(generation, best, total, count) ==
  [generation |-> generation, bestFitness |-> total \div count,
   avgFitness |-> [sum |-> total, count |-> count]]

\* the ProgressData record of the yield
progressData(generation, best, total, count) ==
  [generation |-> generation, bestFitness |-> best,
   avgFitness |-> [sum |-> total, count |-> count]]

\* mutant: the record carries the 0-based loop counter
generationNumberZeroBased(g) == g

\* the generation number a record carries
generationNumber(g) == g + 1

\* mutant: setTimeout is called before the yield, so a timer is pending at it
pendingAtYieldEager(t) == t + 1

\* the timers pending once the record is handed over: setTimeout is called
\* only after the body is resumed, so the yield adds none
pendingAtYield(t) == t

\* the reference of array r among the members of the population whose
\* references into the replaced population are newRefs
firstHolder(newRefs, r) ==
  IF r # NotMember /\ \E k \in 1..Len(newRefs) : newRefs[k] = r
  THEN CHOOSE k \in 1..Len(newRefs) :
         /\ newRefs[k] = r
         /\ \A l \in 1..(k - 1) : newRefs[l] # r
  ELSE NotMember

\* Report: the while loop is over; the population is replaced and the
\* ProgressData record is yielded; the generator suspends at the yield
Report ==
  /\ pc = "reproduce"
  /\ ~(Len(newPopulation) < settings.populationSize)
  /\ LET pop == truncate(newPopulation, settings.populationSize)
         newRefs == truncate(refs.new, settings.populationSize)
     IN /\ population' = pop
        /\ refs' = [pop |-> [j \in 1..Len(newRefs) |->
                               IF newRefs[j] = NotMember THEN j
                               ELSE firstHolder(newRefs, newRefs[j])],
                    new |-> <<>>,
                    best |-> firstHolder(newRefs, refs.best)]
        /\ roles' = <<>>
        /\ emitted' = Append(emitted,
                             progressData(generationNumber(gen), bestFitnessEver,
                                          totalFitness, Len(pop)))
  /\ pc' = "yielded"
  /\ timers' = pendingAtYield(timers)
  /\ suspensions' = suspensions + 1
  /\ fitnesses' = <<>>
  /\ totalFitness' = 0
  /\ newPopulation' = <<>>
  /\ UNCHANGED << params, settings, gen, bestEver, bestFitnessEver, result,
                  requests, evaluations, evaluated, call >>

\* mutant: the await of the timer is missing, the body resumes into the loop
ResumeNoTimer ==
  /\ pc = "yielded"
  /\ requests' = requests + 1
  /\ gen' = gen + 1
  /\ pc' = "loop"
  /\ UNCHANGED << params, settings, population, bestEver, bestFitnessEver,
                  fitnesses, totalFitness, newPopulation, timers, emitted, result,
                  suspensions, evaluations, refs, evaluated, call, roles >>

\* a later gaRunner.next(): the body resumes after the yield, schedules the
\* zero-delay timer and suspends at the await
Resume ==
  /\ pc = "yielded"
  /\ requests' = requests + 1
  /\ timers' = timers + 1
  /\ suspensions' = suspensions + 1
  /\ pc' = "timer"
  /\ UNCHANGED << params, settings, gen, population, bestEver, bestFitnessEver,
                  fitnesses, totalFitness, newPopulation, emitted, result,
                  evaluations, refs, evaluated, call, roles >>

\* the timer callback runs: the await completes, gen++ and back to the loop test
TimerFires ==
  /\ pc = "timer"
  /\ timers > 0
  /\ timers' = timers - 1
  /\ gen' = gen + 1
  /\ pc' = "loop"
  /\ UNCHANGED << params, settings, population, bestEver, bestFitnessEver,
                  fitnesses, totalFitness, newPopulation, emitted, result,
                  requests, suspensions, evaluations, refs, evaluated, call, roles >>

\* mutant: the result carries the bestFitness of the degenerate return
finalResultStale(best, bestFitness) ==
  [bestAllocation |-> best, predictedThroughput |-> predictThroughput(best),
   totalBuffersUsed |-> SumSeq(best), bestFitness |-> NegInf]

\* mutant: the result reports the fitness as the predicted throughput
finalResultFitness(best, bestFitness) ==
  [bestAllocation |-> best, predictedThroughput |-> bestFitness,
   totalBuffersUsed |-> SumSeq(best), bestFitness |-> bestFitness]

\* the OptimizationResult of Terminate
finalResult(best, bestFitness) ==
  [bestAllocation |-> best, predictedThroughput |-> predictThroughput(best),
   totalBuffersUsed |-> SumSeq(best), bestFitness |-> bestFitness]

\* Terminate: the generation loop is over (gen >= generations); the result is
\* returned and completes the pending gaRunner.next()
Terminate ==
  /\ pc = "loop"
  /\ ~loopContinues(gen, settings.generations)
  /\ result' = finalResult(bestEver, bestFitnessEver)
  /\ pc' = "done"
  /\ UNCHANGED << params, settings, gen, population, bestEver, bestFitnessEver,
                  fitnesses, totalFitness, newPopulation, timers, emitted,
                  requests, suspensions, evaluations, refs, evaluated, call, roles >>

Next ==
  \/ Start
  \/ Evaluate
  \/ ReproduceStep
  \/ Report
  \/ Resume
  \/ TimerFires
  \/ Terminate

Spec == Init /\ [][Next]_vars

\* the runs whose two rates are 0.5 and whose tournaments are of size 1: each
\* probability gate can then fire or not, and a tournament of any size can
\* return any member of the population (its draws may all coincide), as one
\* of size 1 does, so these runs take every path through Reproduce that a run
\* of any other rate or tournament size can take
FairInit ==
  /\ Init
  /\ settings.crossoverRate = 5
  /\ settings.mutationRate = 5
  /\ settings.tournamentSize = 1

\* the generator body runs to its next suspension, the event loop runs a due
\* timer callback, and the consumer of handleRunOptimization awaits
\* gaRunner.next() again until the result arrives: no enabled step waits forever
FairSpec == FairInit /\ [][Next]_vars /\ WF_vars(Next)

\* ------------------------------------------------------- single operator calls
\* One call of an operator of the engine, on arguments it can be given: the
\* call record holds the arguments, the random draws and what was returned.

\* the chromosomes of size slots whose elements are non-negative (and bounded)
Offspring(size) == [1..size -> 0..MaxBuffers]

CallInit ==
  /\ params \in { p \in ParamsSet : p.numStations >= 2 }
  /\ settings = [populationSize |-> MaxPop, generations |-> 0, mutationRate |-> 0,
                 crossoverRate |-> 0, tournamentSize |-> MaxTournament]
  /\ pc = "call"
  /\ gen = 0
  /\ population = <<>>
  /\ bestEver = NoChromosome
  /\ bestFitnessEver = NegInf
  /\ fitnesses = <<>>
  /\ totalFitness = 0
  /\ newPopulation = <<>>
  /\ timers = 0
  /\ emitted = <<>>
  /\ result = NoResult
  /\ requests = 0
  /\ suspensions = 0
  /\ evaluations = 0
  /\ refs = [pop |-> <<>>, new |-> <<>>, best |-> NotMember]
  /\ evaluated = <<>>
  /\ call = NoCall
  /\ roles = <<>>

\* tournamentSelection(population, fitnesses, tournamentSize) on a population
\* of the run's parameters and the fitnesses Evaluate computes for it
CallTournament ==
  /\ pc = "call"
  /\ call = NoCall
  /\ \E popSize \in 1..MaxPop, tournamentSize \in 1..MaxTournament :
     \E pop \in initializePopulation(popSize, numBufferSlots, params.totalBuffers) :
     \E draws \in TournamentDraws(Len(pop), tournamentSize) :
       LET fits == [i \in 1..Len(pop) |->
                      calculateFitness(pop[i], params.w1, params.w2)]
           index == tournamentIndex(fits, draws)
       IN call' = [name |-> "tournamentSelection", population |-> pop,
                   fitnesses |-> fits, draws |-> draws, index |-> index,
                   returned |-> IF index = 0 THEN NoChromosome ELSE pop[index]]
  /\ UNCHANGED << params, settings, pc, gen, population, bestEver, bestFitnessEver,
                  fitnesses, totalFitness, newPopulation, timers, emitted, result,
                  requests, suspensions, evaluations, refs, evaluated, roles >>

\* repair(child) on any offspring of non-negative elements
CallRepair ==
  /\ pc = "call"
  /\ call = NoCall
  /\ \E size \in 1..CallSlots :
     \E child \in Offspring(size) :
     \E outcome \in repairOutcomes(child, params.totalBuffers) :
       call' = [name |-> "repair", child |-> child, outcome |-> outcome]
  /\ UNCHANGED << params, settings, pc, gen, population, bestEver, bestFitnessEver,
                  fitnesses, totalFitness, newPopulation, timers, emitted, result,
                  requests, suspensions, evaluations, refs, evaluated, roles >>

\* crossover(parent1, parent2, totalBuffers) on two valid parents of two or
\* more slots: the cut, one of the two recombined children and its repair
CallCrossover ==
  /\ pc = "call"
  /\ call = NoCall
  /\ \E size \in 2..CallSlots :
     \E parent1 \in createIndividual(size, params.totalBuffers) :
     \E parent2 \in createIndividual(size, params.totalBuffers) :
     \E crossoverPoint \in 1..(size - 1), which \in 1..2 :
       LET child == recombine(parent1, parent2, crossoverPoint)[which]
       IN \E outcome \in repairOutcomes(child, params.totalBuffers) :
            call' = [name |-> "crossover", parent1 |-> parent1,
                     parent2 |-> parent2, crossoverPoint |-> crossoverPoint,
                     child |-> child, outcome |-> outcome]
  /\ UNCHANGED << params, settings, pc, gen, population, bestEver, bestFitnessEver,
                  fitnesses, totalFitness, newPopulation, timers, emitted, result,
                  requests, suspensions, evaluations, refs, evaluated, roles >>

\* mutate(chromosome) on a valid chromosome; no index is drawn (idx = 0) when
\* mutate returns early, and idx2 is drawn only if the slot idx1 is positive
CallMutate ==
  /\ pc = "call"
  /\ call = NoCall
  /\ \E size \in 1..CallSlots :
     \E chromosome \in createIndividual(size, params.totalBuffers) :
       IF Len(chromosome) <= 1
       THEN \E returned \in mutate(chromosome) :
              call' = [name |-> "mutate", chromosome |-> chromosome,
                       idx1 |-> 0, idx2 |-> 0, returned |-> returned]
       ELSE \E idx1 \in 1..size, idx2 \in 1..size :
              call' = [name |-> "mutate", chromosome |-> chromosome,
                       idx1 |-> idx1,
                       idx2 |-> IF chromosome[idx1] > 0 THEN idx2 ELSE 0,
                       returned |-> mutateAt(chromosome, idx1, idx2)]
  /\ UNCHANGED << params, settings, pc, gen, population, bestEver, bestFitnessEver,
                  fitnesses, totalFitness, newPopulation, timers, emitted, result,
                  requests, suspensions, evaluations, refs, evaluated, roles >>

CallNext ==
  \/ CallTournament
  \/ CallRepair
  \/ CallCrossover
  \/ CallMutate

CallSpec == CallInit /\ [][CallNext]_vars

\* -------------------------------------------------------------------- claims
nonDegenerate == params.numStations >= 2

\* a valid chromosome of the run: one slot per gap between stations,
\* non-negative integers, summing to totalBuffers
validChromosome(c) ==
  /\ Len(c) = params.numStations - 1
  /\ \A i \in 1..Len(c) : c[i] \in Nat
  /\ SumSeq(c) = params.totalBuffers

\* C1: in a run with numStations >= 2, every chromosome of the initial
\* population, every offspring appended after crossover + repair and mutation
\* (with a mutation gate that does not fire the appended offspring is the
\* crossover result itself), hence every member of population and
\* newPopulation, bestEver and the result's bestAllocation, has length
\* numStations - 1, non-negative integer elements and sum totalBuffers.
C1_ChromosomesValid ==
  nonDegenerate =>
    /\ \A i \in 1..Len(population) : validChromosome(population[i])
    /\ \A i \in 1..Len(newPopulation) : validChromosome(newPopulation[i])
    /\ (bestEver # NoChromosome => validChromosome(bestEver))
    /\ (result # NoResult => validChromosome(result.bestAllocation))

\* C1 witness: reproduction has appended a chromosome that no member of the
\* evaluated population equals, so crossover + repair or mutation made it
C1_Witness ==
  /\ pc = "reproduce"
  /\ params.numStations = 3
  /\ \E i \in 2..Len(newPopulation) :
       \A j \in 1..Len(population) : population[j] # newPopulation[i]

\* C2: under FairSpec every run ends; a non-degenerate run with
\* generations = N ends with exactly N records emitted, N generations
\* evaluated and the result delivered, never emits more than N records, and
\* once the result is delivered neither a record nor another result follows.
C2_EmitsNThenResult ==
  /\ <>(pc = "done")
  /\ [](pc = "done" => /\ result # NoResult
                       /\ (nonDegenerate => /\ Len(emitted) = settings.generations
                                            /\ evaluations = settings.generations))
  /\ [](pc # "done" => result = NoResult)
  /\ [][result # NoResult => (emitted' = emitted /\ result' = result)]_vars

\* C2 witness: a non-degenerate run of the largest generation count has ended
C2_Witness ==
  /\ pc = "done"
  /\ nonDegenerate
  /\ settings.generations = MaxGen
  /\ Len(emitted) = MaxGen
  /\ result # NoResult

\* C3: bestFitness never decreases from one emitted record to the next.
C3_BestFitnessMonotone ==
  \A k \in 1..(Len(emitted) - 1) :
    emitted[k].bestFitness <= emitted[k + 1].bestFitness

\* C3 witness: two records, the second with a strictly better bestFitness
C3_Witness ==
  /\ Len(emitted) >= 2
  /\ emitted[1].bestFitness < emitted[2].bestFitness

\* C4: the result's bestFitness is at least the bestFitness of every record.
C4_ResultAtLeastProgress ==
  result # NoResult =>
    \A k \in 1..Len(emitted) : result.bestFitness >= emitted[k].bestFitness

\* C4 witness: a result that is strictly better than the first record
C4_Witness ==
  /\ result # NoResult
  /\ Len(emitted) >= 2
  /\ result.bestFitness > emitted[1].bestFitness

\* C5: with numStations <= 1 the run emits no record, builds no population,
\* evaluates nothing, never suspends, and its first request returns
\* {bestAllocation: [], predictedThroughput: 0, totalBuffersUsed: 0,
\*  bestFitness: -Infinity}, whatever the settings.
C5_Degenerate ==
  params.numStations <= 1 =>
    /\ pc \in {"created", "done"}
    /\ emitted = <<>>
    /\ population = <<>>
    /\ newPopulation = <<>>
    /\ evaluations = 0
    /\ suspensions = 0
    /\ timers = 0
    /\ (requests >= 1 => /\ requests = 1
                         /\ pc = "done"
                         /\ result = [bestAllocation |-> <<>>,
                                      predictedThroughput |-> 0,
                                      totalBuffersUsed |-> 0,
                                      bestFitness |-> NegInf])

\* C5 witness: a degenerate run has returned, under the largest settings
C5_Witness ==
  /\ params.numStations <= 1
  /\ pc = "done"
  /\ result # NoResult
  /\ settings.generations = MaxGen
  /\ settings.populationSize = MaxPop

\* C6: the k-th emitted record carries generation = k.
C6_GenerationOrder ==
  \A k \in 1..Len(emitted) : emitted[k].generation = k

\* C6 witness: the last record of a run of the largest generation count
C6_Witness ==
  /\ Len(emitted) = MaxGen
  /\ emitted[MaxGen].generation = MaxGen

\* is the generator body suspended (it has started, has not returned, and is
\* not running)
suspended == pc \in {"yielded", "timer"}

\* C7 as claimed: the yield is the only place where the body is suspended, and
\* the body has suspended once per reported generation.
C7_SingleSuspension ==
  /\ (suspended => pc = "yielded")
  /\ (pc = "yielded" => suspensions = Len(emitted))

\* C7 amended: each request that is answered by a record makes the body
\* evaluate exactly one generation and yield exactly one record; the body
\* never suspends inside a generation; between the report of a generation and
\* the next loop test it suspends twice, at the yield until the next request
\* and then at the await of the zero-delay timer until its callback runs.
C7_TwoSuspensions ==
  /\ (pc = "yielded" => /\ requests = Len(emitted)
                        /\ evaluations = Len(emitted)
                        /\ suspensions = 2 * Len(emitted) - 1)
  /\ (pc = "timer" => /\ requests = Len(emitted) + 1
                      /\ evaluations = Len(emitted)
                      /\ suspensions = 2 * Len(emitted)
                      /\ timers = 1)
  /\ (pc = "loop" => /\ requests = Len(emitted) + 1
                     /\ evaluations = Len(emitted)
                     /\ suspensions = 2 * Len(emitted))
  /\ (pc = "reproduce" => /\ requests = Len(emitted) + 1
                          /\ evaluations = Len(emitted) + 1
                          /\ suspensions = 2 * Len(emitted))
  /\ (pc = "done" /\ nonDegenerate => /\ requests = Len(emitted) + 1
                                      /\ suspensions = 2 * Len(emitted))

\* C7 witness: the body stands at the second yield: two requests, two
\* generations evaluated, three suspensions
C7_Witness ==
  /\ pc = "yielded"
  /\ Len(emitted) = 2
  /\ requests = 2
  /\ suspensions = 3

\* C8: while the generator stands at the yield nothing is pending (no timer
\* is scheduled), and as long as the consumer makes no request nothing of the
\* run changes: no generation is evaluated, no record or result is produced.
C8_CooperativeCancel ==
  /\ [](pc = "yielded" => timers = 0)
  /\ [][(pc = "yielded" /\ requests' = requests) =>
          (engineState' = engineState /\ evaluations' = evaluations
           /\ emitted' = emitted /\ result' = result)]_vars

\* C8 witness: a record has been received and generations remain
C8_Witness ==
  /\ pc = "yielded"
  /\ Len(emitted) >= 1
  /\ Len(emitted) < settings.generations
  /\ timers = 0

\* C9: the population has exactly populationSize members whenever it exists
\* (after initialization and after every truncation); newPopulation holds the
\* elitist plus batches of one or two, never more than populationSize + 1,
\* and when the while loop ends it holds populationSize or populationSize + 1.
C9_PopulationSize ==
  nonDegenerate =>
    /\ (pc # "created" => Len(population) = settings.populationSize)
    /\ (pc = "reproduce" =>
          /\ Len(newPopulation) >= 1
          /\ Len(newPopulation) <= settings.populationSize + 1
          /\ (~(Len(newPopulation) < settings.populationSize) =>
                Len(newPopulation) \in {settings.populationSize,
                                        settings.populationSize + 1}))

\* C9 witness: the while loop has ended with an overshoot of one
C9_Witness ==
  /\ pc = "reproduce"
  /\ Len(newPopulation) = settings.populationSize + 1

\* C10: once a record has been yielded, at every yield and at every later
\* loop test, index 0 of the population is bestEver and its fitness is
\* bestFitnessEver; during Reproduce index 0 of newPopulation is bestEver.
C10_ElitistAtIndex0 ==
  /\ (Len(emitted) >= 1 /\ pc \in {"yielded", "timer", "loop"} =>
        /\ Len(population) >= 1
        /\ population[1] = bestEver
        /\ calculateFitness(population[1], params.w1, params.w2) = bestFitnessEver)
  /\ (pc = "reproduce" => /\ Len(newPopulation) >= 1
                          /\ newPopulation[1] = bestEver
                          /\ calculateFitness(bestEver, params.w1, params.w2)
                               = bestFitnessEver)

\* C10 witness: a generation after the first is about to be evaluated and
\* the elitist at index 0 is strictly fitter than another member
C10_Witness ==
  /\ pc = "loop"
  /\ gen >= 1
  /\ gen < settings.generations
  /\ \E i \in 2..Len(population) :
       calculateFitness(population[i], params.w1, params.w2) < bestFitnessEver

\* C11: the arrays that bestEver and the members of population are keep their
\* contents through every iteration of Reproduce (selection, crossover,
\* repair, mutation), as do the members newPopulation already holds; and the
\* contents of bestEver change only when the body first assigns it or when
\* Evaluate assigns an individual of strictly greater fitness.
C11_BestEverIntact ==
  /\ [][(pc = "reproduce" /\ pc' = "reproduce") =>
          /\ population' = population
          /\ bestEver' = bestEver
          /\ SubSeq(newPopulation', 1, Len(newPopulation)) = newPopulation]_vars
  /\ [][bestEver' # bestEver =>
          \/ pc = "created"
          \/ /\ pc = "loop"
             /\ pc' = "reproduce"
             /\ bestFitnessEver' > bestFitnessEver
             /\ calculateFitness(bestEver', params.w1, params.w2)
                  = bestFitnessEver']_vars

\* C11 witness: without crossover, every member of the population is the
\* array bestEver is, and an offspring that differs from it has been
\* appended: mutate was called on that very array and moved a unit
C11_Witness ==
  /\ pc = "reproduce"
  /\ settings.crossoverRate = 0
  /\ Len(population) >= 2
  /\ \A i \in 1..Len(population) : refs.pop[i] = refs.best
  /\ Len(newPopulation) >= 2
  /\ newPopulation[2] # bestEver

\* C12: in a run with numStations >= 2 (populationSize >= 1), also one of
\* generations = 0, the result's bestAllocation is bestEver and has
\* numStations - 1 slots, its totalBuffersUsed is the sum of bestAllocation
\* and equals totalBuffers, and its predictedThroughput is
\* predictThroughput(bestAllocation).
C12_ResultFields ==
  (nonDegenerate /\ result # NoResult) =>
    /\ result.bestAllocation = bestEver
    /\ Len(result.bestAllocation) = params.numStations - 1
    /\ result.totalBuffersUsed = SumSeq(result.bestAllocation)
    /\ result.totalBuffersUsed = params.totalBuffers
    /\ result.predictedThroughput = throughputOf(result.bestAllocation)

\* C12 witness: a run of generations = 0 over three stations has returned the
\* first member of its initial population, with every buffer in use
C12_Witness ==
  /\ pc = "done"
  /\ params.numStations = 3
  /\ params.totalBuffers = MaxBuffers
  /\ settings.generations = 0
  /\ emitted = <<>>
  /\ result # NoResult
  /\ result.bestAllocation = population[1]
  /\ result.bestFitness = NegInf

\* C13: the bestFitness of the k-th record is the greatest calculateFitness
\* value over every individual of every population evaluated in generations
\* 1..k.
C13_BestFitnessSeen ==
  \A k \in 1..Len(emitted) :
    /\ k <= Len(evaluated)
    /\ emitted[k].bestFitness = greatest({ evaluated[j].max : j \in 1..k })

\* C13 witness: two records, each reporting the greatest fitness evaluated
\* so far; the second generation held an individual better than every
\* individual of the first, and individuals worse than it
C13_Witness ==
  /\ Len(emitted) = 2
  /\ evaluated[1].max < evaluated[2].max
  /\ emitted[1].bestFitness = evaluated[1].max
  /\ emitted[2].bestFitness = evaluated[2].max
  /\ evaluated[2].total < evaluated[2].count * evaluated[2].max

\* C14: the avgFitness of each record is the total fitness of the population
\* evaluated in that generation over the number of individuals evaluated,
\* which is populationSize: the length of the replacement population, which
\* the code divides by, equals it.
C14_AverageOfEvaluated ==
  \A k \in 1..Len(emitted) :
    /\ k <= Len(evaluated)
    /\ emitted[k].avgFitness.sum = evaluated[k].total
    /\ emitted[k].avgFitness.count = evaluated[k].count
    /\ emitted[k].avgFitness.count = settings.populationSize

\* C14 witness: at the yield of a record the replacement population has
\* another total fitness than the record's average is taken from
C14_Witness ==
  /\ pc = "yielded"
  /\ settings.populationSize = MaxPop
  /\ Len(emitted) >= 1
  /\ emitted[Len(emitted)].avgFitness.count = Len(population)
  /\ emitted[Len(emitted)].avgFitness.sum #
       SumSeq([i \in 1..Len(population) |->
                 calculateFitness(population[i], params.w1, params.w2)])

\* the absolute value of an integer
distance(a, b) == IF a >= b THEN a - b ELSE b - a

\* C15: repair of an offspring with non-negative elements, for
\* totalBuffers >= 0, ends after exactly |sum(offspring) - totalBuffers|
\* iterations of its loop; no slot moves away from the target side (slots only
\* go down when the sum is above totalBuffers, only up when it is below), the
\* safeguard is not taken, and the chromosome returned sums to totalBuffers.
C15_RepairBounded ==
  call.name = "repair" =>
    LET child == call.child
        repaired == call.outcome.child
        excess == SumSeq(child) - params.totalBuffers
    IN /\ call.outcome.iters = distance(SumSeq(child), params.totalBuffers)
       /\ ~call.outcome.safeguard
       /\ Len(repaired) = Len(child)
       /\ SumSeq(repaired) = params.totalBuffers
       /\ \A i \in 1..Len(child) :
            /\ (excess >= 0 => repaired[i] <= child[i])
            /\ (excess <= 0 => repaired[i] >= child[i])
            /\ repaired[i] >= 0

\* C15 witness: an offspring of three slots whose sum is above totalBuffers by
\* more than the content of its first positive slot has been repaired: the
\* loop ran once per unit of excess and went on to a second slot
C15_Witness ==
  /\ call.name = "repair"
  /\ Len(call.child) = 3
  /\ call.child[1] = 0
  /\ call.child[2] > 0
  /\ SumSeq(call.child) - params.totalBuffers > call.child[2]
  /\ call.outcome.iters = SumSeq(call.child) - params.totalBuffers
  /\ call.outcome.child[2] = 0
  /\ call.outcome.child[3] < call.child[3]

\* C16: in crossover of two valid parents (totalBuffers >= 0), whenever the
\* sum of a recombined child is above totalBuffers the child has a positive
\* slot, and its repair never takes the safeguard branch: the chromosome
\* returned is the child itself, reduced or filled up slot by slot.
C16_SafeguardUnreachable ==
  call.name = "crossover" =>
    /\ (SumSeq(call.child) > params.totalBuffers =>
          \E i \in 1..Len(call.child) : call.child[i] > 0)
    /\ ~call.outcome.safeguard
    /\ call.outcome.iters = distance(SumSeq(call.child), params.totalBuffers)

\* C16 witness: the child of two valid parents carried more than totalBuffers
\* units (all of parent1's and all of parent2's) and has been reduced
C16_Witness ==
  /\ call.name = "crossover"
  /\ params.totalBuffers >= 1
  /\ SumSeq(call.child) = 2 * params.totalBuffers
  /\ call.outcome.iters = params.totalBuffers
  /\ ~call.outcome.safeguard
  /\ SumSeq(call.outcome.child) = params.totalBuffers

\* C17: mutate returns a chromosome of length <= 1 unchanged; otherwise, with
\* idx1 the drawn index, it returns the input unchanged if the slot idx1 is 0
\* (no other index is tried), else the input with one unit taken from idx1
\* and one added to the drawn idx2, which is the input again when
\* idx2 = idx1; the sum is preserved and no element is negative.
C17_SingleTransfer ==
  call.name = "mutate" =>
    LET chromosome == call.chromosome
        returned == call.returned
    IN /\ Len(returned) = Len(chromosome)
       /\ (Len(chromosome) <= 1 => returned = chromosome)
       /\ (Len(chromosome) > 1 =>
             /\ (chromosome[call.idx1] = 0 => returned = chromosome)
             /\ (chromosome[call.idx1] > 0 =>
                   /\ \A i \in 1..Len(chromosome) :
                        returned[i] = chromosome[i]
                                      - (IF i = call.idx1 THEN 1 ELSE 0)
                                      + (IF i = call.idx2 THEN 1 ELSE 0)
                   /\ (call.idx2 = call.idx1 => returned = chromosome)))
       /\ SumSeq(returned) = SumSeq(chromosome)
       /\ \A i \in 1..Len(returned) : returned[i] >= 0

\* C17 witness: idx1 fell on an empty slot of a chromosome that has units
\* elsewhere, and the chromosome came back as it was
C17_Witness ==
  /\ call.name = "mutate"
  /\ Len(call.chromosome) = 3
  /\ call.chromosome[call.idx1] = 0
  /\ SumSeq(call.chromosome) >= 2
  /\ call.returned = call.chromosome

\* C18: tournamentSelection with tournamentSize T >= 1 returns the member of
\* the population at the earliest of its T drawn indices (drawn with
\* replacement) whose fitness is the greatest among the drawn ones: no
\* earlier draw is as fit, a later draw of equal fitness does not replace it,
\* and what is returned is a member of the population, never null.
C18_EarliestMaximum ==
  call.name = "tournamentSelection" =>
    LET draws == call.draws
        fits == call.fitnesses
        drawnMax == greatest({ fits[draws[k]] : k \in 1..Len(draws) })
    IN /\ call.index \in 1..Len(call.population)
       /\ call.returned = call.population[call.index]
       /\ \E k \in 1..Len(draws) :
            /\ call.index = draws[k]
            /\ fits[draws[k]] = drawnMax
            /\ \A l \in 1..(k - 1) : fits[draws[l]] < drawnMax

\* C18 witness: two different chromosomes of equal fitness were drawn, no draw
\* was fitter, and the one drawn first has been returned
C18_Witness ==
  /\ call.name = "tournamentSelection"
  /\ Len(call.draws) >= 2
  /\ call.population[call.draws[1]] # call.population[call.draws[2]]
  /\ call.fitnesses[call.draws[1]] = call.fitnesses[call.draws[2]]
  /\ call.index = call.draws[1]
  /\ call.returned = call.population[call.draws[1]]
  /\ call.returned # call.population[call.draws[2]]

\* the fitness values of the members of the population
populationFitness ==
  { calculateFitness(population[i], params.w1, params.w2) : i \in 1..Len(population) }

\* C19: an Evaluate step assigns bestEver and bestFitnessEver exactly when the
\* greatest fitness of the generation is strictly above bestFitnessEver (then
\* bestFitnessEver becomes that fitness and bestEver a member of the
\* population that has it); when it equals bestFitnessEver, or is below it,
\* bestEver stays the array it was and bestFitnessEver stays as it was.
C19_StrictImprovement ==
  [][(pc = "loop" /\ pc' = "reproduce") =>
       LET generationMax == greatest(populationFitness)
       IN /\ (generationMax > bestFitnessEver =>
                /\ bestFitnessEver' = generationMax
                /\ \E i \in 1..Len(population) : bestEver' = population[i]
                /\ calculateFitness(bestEver', params.w1, params.w2) = generationMax)
          /\ (~(generationMax > bestFitnessEver) =>
                /\ bestEver' = bestEver
                /\ refs'.best = refs.best
                /\ bestFitnessEver' = bestFitnessEver)]_vars

\* C19 witness: the second generation has been evaluated, its greatest
\* fitness equals that of the first, a member other than the incumbent has
\* it too, and bestEver is still the incumbent at index 0
C19_Witness ==
  /\ pc = "reproduce"
  /\ Len(evaluated) = 2
  /\ evaluated[2].max = evaluated[1].max
  /\ bestFitnessEver = evaluated[1].max
  /\ bestEver = population[1]
  /\ refs.best = 1
  /\ \E i \in 2..Len(population) :
       /\ fitnesses[i] = bestFitnessEver
       /\ population[i] # bestEver

\* C20: in every generation after the first the greatest fitness of the
\* evaluated population is at least the bestFitness reported for the
\* generation before, and the bestFitness a record reports is the greatest
\* fitness of the population evaluated in its own generation.
C20_NonRegression ==
  /\ \A k \in 2..Len(evaluated) :
       /\ k - 1 <= Len(emitted)
       /\ evaluated[k].max >= emitted[k - 1].bestFitness
  /\ \A k \in 1..Len(emitted) :
       /\ k <= Len(evaluated)
       /\ emitted[k].bestFitness = evaluated[k].max

\* C20 witness: in the second generation only the elitist kept the fitness
\* reported for the first, a member was worse, and the second record reports
\* that same fitness
C20_Witness ==
  /\ Len(emitted) = 2
  /\ Len(evaluated) = 2
  /\ evaluated[2].max = emitted[1].bestFitness
  /\ evaluated[2].total < evaluated[2].count * evaluated[2].max
  /\ emitted[2].bestFitness = evaluated[2].max

\* C21: with numStations = 2 (one buffer slot) every member of every
\* population, and bestEver, is the one-element chromosome <<totalBuffers>>;
\* mutate returns the very array it was given, so without crossover every
\* offspring is a parent itself, and the offspring crossover returns are
\* copies, arrays of their own; every record carries the same bestFitness,
\* the fitness of <<totalBuffers>>.
C21_SingleSlot ==
  params.numStations = 2 =>
    LET only == << params.totalBuffers >>
    IN /\ \A i \in 1..Len(population) : population[i] = only
       /\ \A i \in 1..Len(newPopulation) : newPopulation[i] = only
       /\ bestEver \in {NoChromosome, only}
       /\ \A k \in 1..Len(emitted) :
            /\ emitted[k].bestFitness = emitted[1].bestFitness
            /\ emitted[k].bestFitness = calculateFitness(only, params.w1, params.w2)
       /\ (settings.crossoverRate = 0 =>
             \A j \in 1..Len(refs.new) : refs.new[j] # NotMember)
       /\ (settings.crossoverRate = 10 =>
             \A j \in 2..Len(refs.new) : refs.new[j] = NotMember)

\* C21 witness: a single-slot run without crossover whose mutation gate
\* always fires has reported a generation and appended an offspring in the
\* next: the offspring is <<totalBuffers>>, the array of a parent
C21_Witness ==
  /\ params.numStations = 2
  /\ params.totalBuffers = MaxBuffers
  /\ settings.crossoverRate = 0
  /\ settings.mutationRate = 10
  /\ pc = "reproduce"
  /\ Len(emitted) >= 1
  /\ Len(newPopulation) >= 2
  /\ newPopulation[2] = << MaxBuffers >>
  /\ refs.new[2] # NotMember

\* C22: the result of a run with numStations >= 2 and generations >= 1 is
\* consistent with itself: its bestFitness is calculateFitness of its
\* bestAllocation, which is w1 * predictedThroughput - w2 * totalBuffersUsed,
\* and it is the bestFitness of the last record.
C22_ResultConsistent ==
  (nonDegenerate /\ settings.generations >= 1 /\ result # NoResult) =>
    /\ result.bestFitness =
         calculateFitness(result.bestAllocation, params.w1, params.w2)
    /\ result.bestFitness =
         params.w1 * result.predictedThroughput
           - params.w2 * result.totalBuffersUsed * Scale
    /\ Len(emitted) >= 1
    /\ result.bestFitness = emitted[Len(emitted)].bestFitness

\* C22 witness: a run over three stations has returned after its last
\* generation, whose record reports a better fitness than the first record
C22_Witness ==
  /\ pc = "done"
  /\ params.numStations = 3
  /\ settings.generations = MaxGen
  /\ result # NoResult
  /\ Len(emitted) = MaxGen
  /\ emitted[1].bestFitness < emitted[MaxGen].bestFitness
  /\ result.bestFitness = emitted[MaxGen].bestFitness

\* C23: in Reproduce the "still room" test on the second offspring never
\* fails: every first offspring of a crossover is pushed right after its
\* second offspring. So when newPopulation ends one above populationSize,
\* its last two members are the second and the first offspring of one
\* crossover that began with a single free slot, and the truncation keeps
\* the first populationSize members: it drops that first offspring, and
\* neither bestEver at index 0 nor a second offspring.
C23_SecondOffspringKept ==
  /\ [](pc = "reproduce" =>
          /\ Len(roles) = Len(newPopulation)
          /\ \A j \in 1..Len(roles) :
               /\ (roles[j] = "bestEver") = (j = 1)
               /\ (roles[j] = "offspring1" => j >= 3 /\ roles[j - 1] = "offspring2")
               /\ (roles[j] = "offspring2" =>
                     j + 1 <= Len(roles) /\ roles[j + 1] = "offspring1")
          /\ (Len(newPopulation) > settings.populationSize =>
                /\ Len(newPopulation) = settings.populationSize + 1
                /\ roles[Len(roles)] = "offspring1"))
  /\ [][(pc = "reproduce" /\ pc' = "yielded") =>
          /\ population' = SubSeq(newPopulation, 1, settings.populationSize)
          /\ population'[1] = bestEver]_vars

\* C23 witness: the while loop has ended one above populationSize with three
\* different chromosomes at index 0 and in the last two places, the last of
\* which, a first offspring, the truncation is about to drop
C23_Witness ==
  /\ pc = "reproduce"
  /\ Len(newPopulation) = settings.populationSize + 1
  /\ roles[Len(roles)] = "offspring1"
  /\ roles[Len(roles) - 1] = "offspring2"
  /\ newPopulation[Len(newPopulation)] # newPopulation[Len(newPopulation) - 1]
  /\ newPopulation[Len(newPopulation)] # newPopulation[1]
  /\ newPopulation[Len(newPopulation) - 1] # newPopulation[1]

====
